---- MODULE Spec2Model ----
(***************************************************************************)
(* Model of rust-portaudio-sys/build.rs: the build script that probes for  *)
(* an installed portaudio, otherwise downloads, builds and installs a      *)
(* static portaudio and prints the cargo link directives.                  *)
(*                                                                         *)
(* One behaviour is a sequence of invocations of the script (one process   *)
(* each) against the same working directory and the same OUT_DIR.  The     *)
(* file system persists from one invocation to the next; the control       *)
(* position, the working directory of the process, the environment and     *)
(* the standard output are per invocation.                                 *)
(***************************************************************************)
EXTENDS Integers, Sequences, FiniteSets, TLC

(***************************************************************************)
(* Bounds                                                                  *)
(***************************************************************************)
\* longest value of RUSTC_LINKER, in characters
MaxLinkerLen == 3

(***************************************************************************)
(* Strings are sequences of characters.  "e'" stands for a two-byte UTF-8  *)
(* character (such as U+00E9) and "xFF" for a byte that is not valid       *)
(* UTF-8; the others are ASCII.                                            *)
(***************************************************************************)
Chars == {"a", "-", "/", "e'", "xFF"}

Utf8Len(c) == IF c = "e'" THEN 2 ELSE 1

IsUnicode(s) == \A i \in 1..Len(s) : s[i] # "xFF"

RECURSIVE StringsUpTo(_)
StringsUpTo(n) ==
    IF n = 0 THEN {<<>>}
    ELSE LET shorter == StringsUpTo(n - 1)
         IN  shorter \cup {Append(s, c) : s \in {t \in shorter : Len(t) = n - 1}, c \in Chars}

\* the values the caller can give RUSTC_LINKER; NotPresent when it is unset
NotPresent == <<"NotPresent">>
LinkerValues == StringsUpTo(MaxLinkerLen)

(***************************************************************************)
(* Paths are sequences of components.                                      *)
(***************************************************************************)
PORTAUDIO_URL == "http://www.portaudio.com/archives/pa_stable_v19_20140130.tgz"
PORTAUDIO_TAR == "pa_stable_v19_20140130.tgz"
PORTAUDIO_FOLDER == "portaudio"
\* the name wget gives a download whose file name is already taken
PORTAUDIO_TAR_1 == "pa_stable_v19_20140130.tgz.1"

\* the directory cargo starts the script in (the package root)
WorkDir == <<"rust-portaudio-sys">>
\* the values of OUT_DIR
OutDirs == {<<"tmp", "out">>, <<"target", "debug", "out">>}

join(path, rel) == path \o rel

TargetOs == {"unix", "linux", "windows"}
TargetArch == {"x86", "x86_64"}
UnixFamily == {"unix", "linux"}

VARIABLES
    target_os,        \* cfg of the build: which platform module is compiled in
    target_arch,      \* cfg(target_arch)
    out_dir,          \* env OUT_DIR
    files,            \* the paths that exist on disk
    cwd,              \* the process's current directory
    only_static,      \* env PORTAUDIO_ONLY_STATIC is set
    rustc_linker,     \* env RUSTC_LINKER as the caller set it, once read
    cross_platform_args, \* local of unix_platform::build
    pc,               \* control position of the running invocation
    steps,            \* the external steps started by this invocation, in order
    skipped,          \* build() found the static library and skipped download/build
    stdout,           \* the cargo directives printed by this invocation
    panic_msg,        \* the message of the panic that ended this invocation
    panic_at,         \* the position at which it panicked
    prev,             \* summary of the previous invocation
    procs             \* the processes of a concurrent run: position, directory, outcome

vars == <<target_os, target_arch, out_dir, files, cwd, only_static, rustc_linker,
          cross_platform_args, pc, steps, skipped, stdout, panic_msg, panic_at, prev, procs>>

config == <<target_os, target_arch, out_dir>>

\* two invocations of the script started side by side
Procs == {1, 2}

\* a process at the entry of build(), in the package root
InitProcs ==
    [p \in Procs |-> [pc |-> "build", cwd |-> WorkDir, skipped |-> FALSE,
                      panic_at |-> "none", linked_partial |-> FALSE]]

(***************************************************************************)
(* Commands, panics and the Command Runner                                 *)
(***************************************************************************)
\* one argument of a command line: literal text followed by a path or name
Arg(text) == [text |-> text, value |-> <<>>]
ArgVal(text, value) == [text |-> text, value |-> value]

\* format!("{:?}", command): program and arguments, each quoted
DebugFmt(command) == [i \in 1..Len(command) |-> [quoted |-> command[i]]]

\* a panic message is a sequence of fragments: literal text or a formatted command
Lit(text) == [lit |-> text, cmd |-> <<>>]
CmdFrag(string) == [lit |-> "", cmd |-> string]
NoPanic == <<>>

Statuses == {"success", "nonzero", "launch_failed"}
IoError == "No such file or directory (os error 2)"

\* err_to_panic letting an Err pass
err_to_panic_never(is_ok, e) == NoPanic

\* err_to_panic: Ok(x) passes, Err(e) panics with e's Display
err_to_panic(is_ok, e) == IF is_ok THEN NoPanic ELSE <<Lit(e)>>

\* the message unwrap() panics with
UnwrapNone == <<Lit("called 'Option::unwrap()' on a 'None' value")>>
UnwrapErr(e) == <<Lit("called 'Result::unwrap()' on an 'Err' value: "), Lit(e)>>

\* run(): the panic it ends with, NoPanic when the command succeeded
run_ignores_status(command, status) ==
    err_to_panic(status # "launch_failed", IoError)

run(command, status) ==
    LET string == DebugFmt(command)
        launched == err_to_panic(status # "launch_failed", IoError)
    IN  IF launched # NoPanic THEN launched
        ELSE IF status # "success"
             THEN <<Lit("'"), CmdFrag(string), Lit("' did not execute successfully")>>
             ELSE NoPanic

\* a step of the invocation has been started and has ended with the panic msg, or with none
Proceed(name, command, status, msg, next) ==
    /\ steps' = Append(steps, [name |-> name, cmd |-> command, status |-> status])
    /\ IF msg = NoPanic
       THEN pc' = next /\ panic_msg' = NoPanic /\ panic_at' = "none"
       ELSE pc' = "panicked" /\ panic_msg' = msg /\ panic_at' = name

\* a step that runs no external command
Advance(msg, at, next) ==
    /\ steps' = steps
    /\ IF msg = NoPanic
       THEN pc' = next /\ panic_msg' = NoPanic /\ panic_at' = "none"
       ELSE pc' = "panicked" /\ panic_msg' = msg /\ panic_at' = at

(***************************************************************************)
(* Cargo directives printed on standard output                             *)
(***************************************************************************)
Directive(kind, search, lib, static) ==
    [kind |-> kind, search |-> search, lib |-> lib, static |-> static]

IsLinkDirective(d) == d.kind \in {"rustc-flags", "rustc-link-search", "rustc-link-lib"}

(***************************************************************************)
(* The order of the calls: where control goes when the step at a position  *)
(* has returned without a panic.  build() calls platform::download, then   *)
(* platform::build, then platform::print_libs.                             *)
(***************************************************************************)
\* unix_platform::build with the directory restored before make install
next_pc_install_after_restore(os, at) ==
    CASE at = "build" -> "download"
      [] at = "download" -> IF os = "windows" THEN "cmake" ELSE "untar"
      [] at = "untar" -> "chdir"
      [] at = "chdir" -> "infer"
      [] at = "infer" -> "configure"
      [] at = "configure" -> "make"
      [] at = "make" -> "chdir_back"
      [] at = "chdir_back" -> "install"
      [] at = "install" -> "rm"
      [] at = "rm" -> "print_libs"
      [] at = "cmake" -> "rename"
      [] at = "rename" -> "print_libs"
      [] at = "print_libs" -> "done_built"

next_pc(os, at) ==
    CASE at = "build" -> "download"
      [] at = "download" -> IF os = "windows" THEN "cmake" ELSE "untar"
      [] at = "untar" -> "chdir"
      [] at = "chdir" -> "infer"
      [] at = "infer" -> "configure"
      [] at = "configure" -> "make"
      [] at = "make" -> "install"
      [] at = "install" -> "chdir_back"
      [] at = "chdir_back" -> "rm"
      [] at = "rm" -> "print_libs"
      [] at = "cmake" -> "rename"
      [] at = "rename" -> "print_libs"
      [] at = "print_libs" -> "done_built"

(***************************************************************************)
(* main and build                                                          *)
(***************************************************************************)
Init ==
    /\ target_os \in TargetOs
    /\ target_arch \in TargetArch
    /\ out_dir \in OutDirs
    /\ files = {}
    /\ cwd = WorkDir
    /\ only_static \in BOOLEAN
    /\ rustc_linker = NotPresent
    /\ cross_platform_args = <<>>
    /\ pc = "main"
    /\ steps = <<>>
    /\ skipped = FALSE
    /\ stdout = <<>>
    /\ panic_msg = NoPanic
    /\ panic_at = "none"
    /\ prev = [outcome |-> "none", at |-> "none", ran_build |-> FALSE]
    /\ procs = InitProcs

\* env::var("PORTAUDIO_ONLY_STATIC").is_err(): the probe is made
main_always_probes(is_set) == TRUE

main_probes(is_set) == ~is_set

\* main returns when pkg-config found the library
main_never_returns(found) == FALSE

\* main returning whatever find() answered
main_returns_always(found) == TRUE

main_returns(found) == found

Main ==
    /\ pc = "main"
    /\ stdout' = stdout \o <<Directive("rerun-if-changed=build.rs", <<>>, "", FALSE),
                             Directive("rerun-if-env-changed=PORTAUDIO_ONLY_STATIC", <<>>, "", FALSE)>>
    /\ Advance(NoPanic, "main", IF main_probes(only_static) THEN "probe" ELSE "build")
    /\ UNCHANGED <<config, procs, files, cwd, only_static, rustc_linker, cross_platform_args,
                   skipped, prev>>

\* what find() can return: Ok, or an error because the package is not
\* registered, is older than 19, pkg-config cannot be run, or its answer
\* cannot be used
ProbeResults == {"Ok", "NotFound", "VersionTooLow", "ToolUnavailable", "Malformed"}

\* Result::is_ok()
probe_is_ok(result) == result = "Ok"

\* how the pkg-config process ended
probe_status(result) ==
    IF result = "Ok" THEN "success"
    ELSE IF result = "ToolUnavailable" THEN "launch_failed" ELSE "nonzero"

\* pkg_config::Config::new().atleast_version("19").find("portaudio-2.0"):
\* on Ok the pkg_config crate has printed the link directives of the
\* installed library
Probe ==
    /\ pc = "probe"
    /\ \E result \in ProbeResults :
       LET found == probe_is_ok(result) IN
        /\ steps' = Append(steps, [name |-> "probe",
                                   cmd |-> <<Arg("pkg-config"), Arg("--atleast-version=19"),
                                             Arg("portaudio-2.0")>>,
                                   status |-> probe_status(result)])
        /\ pc' = IF main_returns(found) THEN "done_found" ELSE "build"
        /\ stdout' = IF found
                     THEN Append(stdout, Directive("rustc-link-lib", <<>>, "portaudio", FALSE))
                     ELSE stdout
    /\ UNCHANGED <<config, procs, files, cwd, only_static, rustc_linker, cross_platform_args,
                   skipped, panic_msg, panic_at, prev>>

static_lib == join(out_dir, <<"lib", "libportaudio.a">>)

\* fs::metadata(static_lib) is Err
build_always(fs) == TRUE

\* build() taking the library for present
build_never(fs) == FALSE

\* build() with the test inverted
build_when_present(fs) == static_lib \in fs

build_needed(fs) == static_lib \notin fs

Build ==
    /\ pc = "build"
    /\ skipped' = ~build_needed(files)
    /\ Advance(NoPanic, "build", IF build_needed(files) THEN next_pc(target_os, "build") ELSE "print_libs")
    /\ UNCHANGED <<config, procs, files, cwd, only_static, rustc_linker, cross_platform_args,
                   stdout, prev>>

(***************************************************************************)
(* Target inference (unix_platform::build, the RUSTC_LINKER block)         *)
(***************************************************************************)
\* env::var: Ok only for a variable that is set and is valid Unicode
env_var_is_ok(value) == value # NotPresent /\ IsUnicode(value)

\* linker_path.split('/').last().unwrap(): what follows the last '/'
RECURSIVE split_last(_)
split_last(s) ==
    IF s = <<>> THEN <<>>
    ELSE IF s[Len(s)] = "/" THEN <<>>
    ELSE Append(split_last(SubSeq(s, 1, Len(s) - 1)), s[Len(s)])

\* number of bytes of the UTF-8 encoding of s
RECURSIVE ByteLen(_)
ByteLen(s) == IF s = <<>> THEN 0 ELSE Utf8Len(Head(s)) + ByteLen(Tail(s))

\* the character positions of '-' in s
DashPositions(s) == {i \in 1..Len(s) : s[i] = "-"}

Max(S) == CHOOSE x \in S : \A y \in S : y <= x

\* str::rfind('-'): the byte offset of the last '-', -1 for None
rfind_dash(s) ==
    IF DashPositions(s) = {} THEN -1
    ELSE ByteLen(SubSeq(s, 1, Max(DashPositions(s)) - 1))

\* s.chars().take(n).collect()
chars_take(s, n) == SubSeq(s, 1, IF n < Len(s) THEN n ELSE Len(s))

\* the target name computed from a linker path whose name contains a '-'
target_name(linker_path) ==
    LET linker_name == split_last(linker_path)
        last_dash_index == rfind_dash(linker_name)
    IN  chars_take(linker_name, last_dash_index)

\* rfind('-').unwrap() panics
infer_panics(value) ==
    env_var_is_ok(value) /\ rfind_dash(split_last(value)) = -1

\* the cross-platform arguments with the --host argument forgotten
infer_args_target_only(value) ==
    IF env_var_is_ok(value)
    THEN <<ArgVal("--target=", target_name(value))>>
    ELSE <<>>

infer_args(value) ==
    IF env_var_is_ok(value)
    THEN <<ArgVal("--target=", target_name(value)), ArgVal("--host=", target_name(value))>>
    ELSE <<>>

(***************************************************************************)
(* The external tools: the statuses they can end with and what they leave  *)
(* on disk.  Each operator gives the set of possible <<status, files>>.    *)
(***************************************************************************)
tar_path == join(cwd, <<PORTAUDIO_TAR>>)
tar_1_path == join(cwd, <<PORTAUDIO_TAR_1>>)
folder_path == join(cwd, <<PORTAUDIO_FOLDER>>)
pc_file == join(out_dir, <<"lib", "pkgconfig", "portaudio-2.0.pc">>)

\* curl URL -O writes the archive under its remote name, replacing a file of that name
curl_outcomes(fs) ==
    {<<"success", fs \cup {tar_path}>>, <<"nonzero", fs>>, <<"nonzero", fs \cup {tar_path}>>,
     <<"launch_failed", fs>>}

\* wget URL keeps an existing file and writes the download under the next
\* free numbered name (.1, .2, ...; the numbered copies are tracked as .1)
wget_target(fs) == IF tar_path \in fs THEN tar_1_path ELSE tar_path

wget_outcomes(fs) ==
    {<<"success", fs \cup {wget_target(fs)}>>, <<"nonzero", fs>>,
     <<"nonzero", fs \cup {wget_target(fs)}>>, <<"launch_failed", fs>>}

\* tar xvf ARCHIVE extracts the folder; it fails when the archive is missing
tar_outcomes(fs) ==
    {<<"nonzero", fs>>, <<"launch_failed", fs>>}
    \cup (IF tar_path \in fs
          THEN {<<"success", fs \cup {folder_path}>>, <<"nonzero", fs \cup {folder_path}>>}
          ELSE {})

\* ./configure and make exist and work only inside the extracted folder
in_source_folder(fs) == cwd \in fs

configure_outcomes(fs) ==
    {<<"launch_failed", fs>>}
    \cup (IF in_source_folder(fs) THEN {<<"success", fs>>, <<"nonzero", fs>>} ELSE {})

make_outcomes(fs) ==
    {<<"nonzero", fs>>, <<"launch_failed", fs>>}
    \cup (IF in_source_folder(fs) THEN {<<"success", fs>>} ELSE {})

\* make install copies the library and its descriptor under the prefix;
\* a failing install may already have copied the library
install_outcomes(fs) ==
    {<<"nonzero", fs>>, <<"launch_failed", fs>>}
    \cup (IF in_source_folder(fs)
          THEN {<<"success", fs \cup {static_lib, pc_file}>>, <<"nonzero", fs \cup {static_lib}>>}
          ELSE {})

\* rm -rf ARCHIVE FOLDER, relative to the current directory
rm_outcomes(fs) ==
    {<<"success", fs \ {tar_path, folder_path}>>, <<"nonzero", fs>>,
     <<"nonzero", fs \ {tar_path}>>, <<"launch_failed", fs>>}

(***************************************************************************)
(* unix_platform and the linux platform                                    *)
(***************************************************************************)
download_command ==
    IF target_os = "linux" THEN <<Arg("wget"), Arg(PORTAUDIO_URL)>>
    ELSE <<Arg("curl"), Arg(PORTAUDIO_URL), Arg("-O")>>

download_outcomes(fs) ==
    IF target_os = "linux" THEN wget_outcomes(fs) ELSE curl_outcomes(fs)

Download ==
    /\ pc = "download"
    /\ target_os \in UnixFamily
    /\ \E o \in download_outcomes(files) :
        /\ files' = o[2]
        /\ Proceed("download", download_command, o[1], run(download_command, o[1]),
                   next_pc(target_os, "download"))
    /\ UNCHANGED <<config, procs, cwd, only_static, rustc_linker, cross_platform_args,
                   skipped, stdout, prev>>

untar_command == <<Arg("tar"), Arg("xvf"), Arg(PORTAUDIO_TAR)>>

Untar ==
    /\ pc = "untar"
    /\ \E o \in tar_outcomes(files) :
        /\ files' = o[2]
        /\ Proceed("untar", untar_command, o[1], run(untar_command, o[1]),
                   next_pc(target_os, "untar"))
    /\ UNCHANGED <<config, procs, cwd, only_static, rustc_linker, cross_platform_args,
                   skipped, stdout, prev>>

\* env::set_current_dir(PORTAUDIO_FOLDER)
Chdir ==
    /\ pc = "chdir"
    /\ \E ok \in BOOLEAN :
        /\ ok => folder_path \in files
        /\ cwd' = IF ok THEN folder_path ELSE cwd
        /\ Advance(err_to_panic(ok, IoError), "chdir", next_pc(target_os, "chdir"))
    /\ UNCHANGED <<config, procs, files, only_static, rustc_linker, cross_platform_args,
                   skipped, stdout, prev>>

\* the configure command is assembled; RUSTC_LINKER is read and parsed
Infer ==
    /\ pc = "infer"
    /\ \E value \in LinkerValues \cup {NotPresent} :
        /\ rustc_linker' = value
        /\ cross_platform_args' = IF infer_panics(value) THEN <<>> ELSE infer_args(value)
        /\ Advance(IF infer_panics(value) THEN UnwrapNone ELSE NoPanic, "infer",
                   next_pc(target_os, "infer"))
    /\ UNCHANGED <<config, procs, files, cwd, only_static, skipped, stdout, prev>>

configure_command ==
    <<Arg("./configure"), Arg("--disable-shared"), Arg("--enable-static"),
      Arg("--prefix"), ArgVal("", out_dir), Arg("--with-pic")>> \o cross_platform_args

Configure ==
    /\ pc = "configure"
    /\ \E o \in configure_outcomes(files) :
        /\ files' = o[2]
        /\ Proceed("configure", configure_command, o[1], run(configure_command, o[1]),
                   next_pc(target_os, "configure"))
    /\ UNCHANGED <<config, procs, cwd, only_static, rustc_linker, cross_platform_args,
                   skipped, stdout, prev>>

make_command == <<Arg("make")>>

Make ==
    /\ pc = "make"
    /\ \E o \in make_outcomes(files) :
        /\ files' = o[2]
        /\ Proceed("make", make_command, o[1], run(make_command, o[1]),
                   next_pc(target_os, "make"))
    /\ UNCHANGED <<config, procs, cwd, only_static, rustc_linker, cross_platform_args,
                   skipped, stdout, prev>>

install_command == <<Arg("make"), Arg("install")>>

Install ==
    /\ pc = "install"
    /\ \E o \in install_outcomes(files) :
        /\ files' = o[2]
        /\ Proceed("install", install_command, o[1], run(install_command, o[1]),
                   next_pc(target_os, "install"))
    /\ UNCHANGED <<config, procs, cwd, only_static, rustc_linker, cross_platform_args,
                   skipped, stdout, prev>>

\* the directory ".." names, seen from dir
parent_dir_stays(dir) == dir

parent_dir(dir) == SubSeq(dir, 1, Len(dir) - 1)

\* env::set_current_dir("..")
ChdirBack ==
    /\ pc = "chdir_back"
    /\ \E ok \in BOOLEAN :
        /\ cwd' = IF ok THEN parent_dir(cwd) ELSE cwd
        /\ Advance(err_to_panic(ok, IoError), "chdir_back", next_pc(target_os, "chdir_back"))
    /\ UNCHANGED <<config, procs, files, only_static, rustc_linker, cross_platform_args,
                   skipped, stdout, prev>>

rm_command == <<Arg("rm"), Arg("-rf"), Arg(PORTAUDIO_TAR), Arg(PORTAUDIO_FOLDER)>>

Rm ==
    /\ pc = "rm"
    /\ \E o \in rm_outcomes(files) :
        /\ files' = o[2]
        /\ Proceed("rm", rm_command, o[1], run(rm_command, o[1]),
                   next_pc(target_os, "rm"))
    /\ UNCHANGED <<config, procs, cwd, only_static, rustc_linker, cross_platform_args,
                   skipped, stdout, prev>>

\* unix_platform::print_libs
unix_directives_no_lib(dir) == <<Directive("rustc-flags", dir, "portaudio", TRUE)>>

unix_directives(dir) == <<Directive("rustc-flags", join(dir, <<"lib">>), "portaudio", TRUE)>>

PrintLibsUnix ==
    /\ pc = "print_libs"
    /\ target_os = "unix"
    /\ stdout' = stdout \o unix_directives(out_dir)
    /\ Advance(NoPanic, "print_libs", next_pc(target_os, "print_libs"))
    /\ UNCHANGED <<config, procs, files, cwd, only_static, rustc_linker, cross_platform_args,
                   skipped, prev>>

\* platform::print_libs (linux): pkg-config resolves the installed descriptor,
\* whose libdir is <prefix>/lib, and the pkg_config crate prints the directives
pkg_config_command == <<Arg("pkg-config"), Arg("--static"), ArgVal("", pc_file)>>

linux_directives(dir) ==
    <<Directive("rustc-link-search", join(dir, <<"lib">>), "", FALSE),
      Directive("rustc-link-lib", <<>>, "portaudio", TRUE)>>

PrintLibsLinux ==
    /\ pc = "print_libs"
    /\ target_os = "linux"
    /\ \E ok \in BOOLEAN :
        /\ ok => pc_file \in files
        /\ stdout' = IF ok THEN stdout \o linux_directives(out_dir) ELSE stdout
        /\ Proceed("pkg_config", pkg_config_command, IF ok THEN "success" ELSE "nonzero",
                   err_to_panic(ok, "pkg-config could not find the library"),
                   next_pc(target_os, "print_libs"))
    /\ UNCHANGED <<config, procs, files, cwd, only_static, rustc_linker, cross_platform_args,
                   skipped, prev>>

(***************************************************************************)
(* the windows platform                                                    *)
(***************************************************************************)
source_path == join(out_dir, <<"portaudio">>)

windows_download_command == <<Arg("cmake"), Arg("-P"), Arg("download.cmake")>>

windows_download_panic(command, status) ==
    IF status = "success" THEN NoPanic
    ELSE IF status = "nonzero"
         THEN <<Lit("Failed to execute command: "), CmdFrag(DebugFmt(command))>>
         ELSE <<Lit("Failed to execute command: "), CmdFrag(DebugFmt(command)), Lit(IoError)>>

\* cmake -P download.cmake fetches the sources that build() expects under OUT_DIR
windows_download_outcomes(fs) ==
    {<<"success", fs \cup {source_path}>>, <<"nonzero", fs>>, <<"launch_failed", fs>>}

DownloadWindows ==
    /\ pc = "download"
    /\ target_os = "windows"
    /\ \E o \in windows_download_outcomes(files) :
        /\ files' = o[2]
        /\ Proceed("download", windows_download_command, o[1],
                   windows_download_panic(windows_download_command, o[1]),
                   next_pc(target_os, "download"))
    /\ UNCHANGED <<config, procs, cwd, only_static, rustc_linker, cross_platform_args,
                   skipped, stdout, prev>>

platform_specific_library_name ==
    IF target_arch = "x86" THEN "portaudio_static_x86.lib" ELSE "portaudio_static_x64.lib"

cmake_command ==
    <<Arg("cmake"), ArgVal("", source_path),
      ArgVal("-DCMAKE_ARCHIVE_OUTPUT_DIRECTORY_DEBUG=", out_dir),
      ArgVal("-DCMAKE_ARCHIVE_OUTPUT_DIRECTORY_RELEASE=", out_dir),
      Arg("-DPA_WDMKS_NO_KSGUID_LIB"), Arg("--target"), Arg("portaudio_static")>>

\* cmake::Config::build() panics when cmake fails
cmake_outcomes(fs) ==
    {<<"nonzero", fs>>, <<"launch_failed", fs>>}
    \cup (IF source_path \in fs
          THEN {<<"success", fs \cup {join(out_dir, <<platform_specific_library_name>>)}>>}
          ELSE {})

CMakeBuild ==
    /\ pc = "cmake"
    /\ \E o \in cmake_outcomes(files) :
        /\ files' = o[2]
        /\ Proceed("cmake", cmake_command, o[1],
                   IF o[1] = "success" THEN NoPanic
                   ELSE <<Lit("command did not execute successfully")>>,
                   next_pc(target_os, "cmake"))
    /\ UNCHANGED <<config, procs, cwd, only_static, rustc_linker, cross_platform_args,
                   skipped, stdout, prev>>

\* std::fs::rename(...).unwrap()
Rename ==
    /\ pc = "rename"
    /\ LET from == join(out_dir, <<platform_specific_library_name>>)
           to == join(out_dir, <<"portaudio.lib">>)
       IN  \E ok \in BOOLEAN :
            /\ ok => from \in files
            /\ files' = IF ok THEN (files \ {from}) \cup {to} ELSE files
            /\ Advance(IF ok THEN NoPanic ELSE UnwrapErr(IoError), "rename",
                    next_pc(target_os, "rename"))
    /\ UNCHANGED <<config, procs, cwd, only_static, rustc_linker, cross_platform_args,
                   skipped, stdout, prev>>

\* the Windows directive pointing at the Unix library folder
windows_directives_lib(dir) == <<Directive("rustc-link-search", join(dir, <<"lib">>), "", FALSE)>>

windows_directives(dir) == <<Directive("rustc-link-search", dir, "", FALSE)>>

PrintLibsWindows ==
    /\ pc = "print_libs"
    /\ target_os = "windows"
    /\ stdout' = stdout \o windows_directives(out_dir)
    /\ Advance(NoPanic, "print_libs", next_pc(target_os, "print_libs"))
    /\ UNCHANGED <<config, procs, files, cwd, only_static, rustc_linker, cross_platform_args,
                   skipped, prev>>

(***************************************************************************)
(* The next invocation: a new process in the same directories              *)
(***************************************************************************)
Terminal == {"done_found", "done_built", "panicked"}

Reinvoke ==
    /\ pc \in Terminal
    /\ prev' = [outcome |-> pc, at |-> panic_at, ran_build |-> pc = "done_built" /\ ~skipped]
    /\ only_static' \in BOOLEAN
    /\ cwd' = WorkDir
    /\ rustc_linker' = NotPresent
    /\ cross_platform_args' = <<>>
    /\ pc' = "main"
    /\ steps' = <<>>
    /\ skipped' = FALSE
    /\ stdout' = <<>>
    /\ panic_msg' = NoPanic
    /\ panic_at' = "none"
    /\ UNCHANGED <<config, procs, files>>

Next ==
    \/ Main
    \/ Probe
    \/ Build
    \/ Download
    \/ Untar
    \/ Chdir
    \/ Infer
    \/ Configure
    \/ Make
    \/ Install
    \/ ChdirBack
    \/ Rm
    \/ PrintLibsUnix
    \/ PrintLibsLinux
    \/ DownloadWindows
    \/ CMakeBuild
    \/ Rename
    \/ PrintLibsWindows
    \/ Reinvoke

Spec == Init /\ [][Next]_vars

(***************************************************************************)
(* Two processes running build() concurrently on Unix, in the same working *)
(* directory and with the same OUT_DIR.  The calls and their order are     *)
(* those of build() and unix_platform::build with RUSTC_LINKER absent.     *)
(* Every tool is healthy: it succeeds whenever the files it reads are on   *)
(* disk and fails only when they are missing.  make install writes the     *)
(* library first and the descriptor last, in two steps.                    *)
(***************************************************************************)
sequential == <<cwd, only_static, rustc_linker, cross_platform_args, pc, steps, skipped,
                stdout, panic_msg, panic_at, prev>>

InitConcurrent ==
    /\ target_os \in UnixFamily
    /\ target_arch \in TargetArch
    /\ out_dir \in OutDirs
    /\ files = {}
    /\ cwd = WorkDir
    /\ only_static = TRUE
    /\ rustc_linker = NotPresent
    /\ cross_platform_args = <<>>
    /\ pc = "main"
    /\ steps = <<>>
    /\ skipped = FALSE
    /\ stdout = <<>>
    /\ panic_msg = NoPanic
    /\ panic_at = "none"
    /\ prev = [outcome |-> "none", at |-> "none", ran_build |-> FALSE]
    /\ procs = InitProcs

\* process p goes on to the next position, or panics at this one
Goes(p, ok, at, next) ==
    procs' = [procs EXCEPT ![p].pc = IF ok THEN next ELSE "panicked",
                           ![p].panic_at = IF ok THEN "none" ELSE at]

work_tar == join(WorkDir, <<PORTAUDIO_TAR>>)
work_tar_1 == join(WorkDir, <<PORTAUDIO_TAR_1>>)
work_folder == join(WorkDir, <<PORTAUDIO_FOLDER>>)

CBuild(p) ==
    /\ procs[p].pc = "build"
    /\ procs' = [procs EXCEPT ![p].skipped = ~build_needed(files),
                              ![p].pc = IF build_needed(files)
                                        THEN next_pc(target_os, "build") ELSE "print_libs"]
    /\ UNCHANGED <<config, files, sequential>>

\* curl -O replaces the archive, wget keeps it and writes a numbered copy
CDownload(p) ==
    /\ procs[p].pc = "download"
    /\ files' = files \cup {IF target_os = "linux" /\ work_tar \in files
                            THEN work_tar_1 ELSE work_tar}
    /\ Goes(p, TRUE, "download", next_pc(target_os, "download"))
    /\ UNCHANGED <<config, sequential>>

CUntar(p) ==
    /\ procs[p].pc = "untar"
    /\ files' = IF work_tar \in files THEN files \cup {work_folder} ELSE files
    /\ Goes(p, work_tar \in files, "untar", next_pc(target_os, "untar"))
    /\ UNCHANGED <<config, sequential>>

CChdir(p) ==
    /\ procs[p].pc = "chdir"
    /\ procs' = [procs EXCEPT
                   ![p].cwd = IF work_folder \in files THEN work_folder ELSE @,
                   ![p].pc = IF work_folder \in files
                             THEN next_pc(target_os, next_pc(target_os, "chdir"))
                             ELSE "panicked",
                   ![p].panic_at = IF work_folder \in files THEN "none" ELSE "chdir"]
    /\ UNCHANGED <<config, files, sequential>>

\* ./configure and make need the source folder the process stands in
CConfigure(p) ==
    /\ procs[p].pc = "configure"
    /\ Goes(p, procs[p].cwd \in files, "configure", next_pc(target_os, "configure"))
    /\ UNCHANGED <<config, files, sequential>>

CMake(p) ==
    /\ procs[p].pc = "make"
    /\ Goes(p, procs[p].cwd \in files, "make", next_pc(target_os, "make"))
    /\ UNCHANGED <<config, files, sequential>>

\* make install has copied libportaudio.a and has not yet written the descriptor
CInstallStart(p) ==
    /\ procs[p].pc = "install"
    /\ files' = IF procs[p].cwd \in files THEN files \cup {static_lib} ELSE files
    /\ Goes(p, procs[p].cwd \in files, "install", "installing")
    /\ UNCHANGED <<config, sequential>>

CInstallEnd(p) ==
    /\ procs[p].pc = "installing"
    /\ files' = IF procs[p].cwd \in files THEN files \cup {pc_file} ELSE files
    /\ Goes(p, procs[p].cwd \in files, "install", next_pc(target_os, "install"))
    /\ UNCHANGED <<config, sequential>>

CChdirBack(p) ==
    /\ procs[p].pc = "chdir_back"
    /\ procs' = [procs EXCEPT ![p].cwd = parent_dir(@),
                              ![p].pc = next_pc(target_os, "chdir_back")]
    /\ UNCHANGED <<config, files, sequential>>

CRm(p) ==
    /\ procs[p].pc = "rm"
    /\ files' = files \ {join(procs[p].cwd, <<PORTAUDIO_TAR>>),
                         join(procs[p].cwd, <<PORTAUDIO_FOLDER>>)}
    /\ Goes(p, TRUE, "rm", next_pc(target_os, "rm"))
    /\ UNCHANGED <<config, sequential>>

\* the library is still being written by another process
partly_written(p) == \E q \in Procs \ {p} : procs[q].pc = "installing"

\* print_libs: on Linux the lookup needs the descriptor
CPrintLibs(p) ==
    /\ procs[p].pc = "print_libs"
    /\ LET ok == target_os = "linux" => pc_file \in files
       IN  procs' = [procs EXCEPT
                       ![p].pc = IF ok THEN next_pc(target_os, "print_libs") ELSE "panicked",
                       ![p].panic_at = IF ok THEN "none" ELSE "pkg_config",
                       ![p].linked_partial = ok /\ partly_written(p)]
    /\ UNCHANGED <<config, files, sequential>>

NextConcurrent ==
    \E p \in Procs :
        \/ CBuild(p)
        \/ CDownload(p)
        \/ CUntar(p)
        \/ CChdir(p)
        \/ CConfigure(p)
        \/ CMake(p)
        \/ CInstallStart(p)
        \/ CInstallEnd(p)
        \/ CChdirBack(p)
        \/ CRm(p)
        \/ CPrintLibs(p)

SpecConcurrent == InitConcurrent /\ [][NextConcurrent]_vars

(***************************************************************************)
(* Vocabulary of the properties                                            *)
(***************************************************************************)
StepNames == [i \in 1..Len(steps) |-> steps[i].name]

Ran(name) == \E i \in 1..Len(steps) : steps[i].name = name

LastStep == steps[Len(steps)]

LinkDirectivesEmitted == \E i \in 1..Len(stdout) : IsLinkDirective(stdout[i])

\* the Link Emitter has been reached, or has finished, on the build path
AtLinkEmitter == pc \in {"print_libs", "done_built"}

\* the steps of Source Acquisition and of the Platform Builder
DownloadBuildSteps == {"download", "untar", "configure", "make", "install", "rm", "cmake"}

\* the full download and build of a platform, in order
FullBuild(os) ==
    IF os = "windows" THEN <<"download", "cmake">>
    ELSE <<"download", "untar", "configure", "make", "install", "rm">>

\* the download and build steps this invocation has started, in order
RECURSIVE OnlyBuildSteps(_)
OnlyBuildSteps(names) ==
    IF names = <<>> THEN <<>>
    ELSE IF Head(names) \in DownloadBuildSteps
         THEN <<Head(names)>> \o OnlyBuildSteps(Tail(names))
         ELSE OnlyBuildSteps(Tail(names))

\* the part of a path after its last '/', and the part of a name before its last '-'
SlashPositions(s) == {i \in 1..Len(s) : s[i] = "/"}
BaseName(s) == IF SlashPositions(s) = {} THEN s ELSE SubSeq(s, Max(SlashPositions(s)) + 1, Len(s))
HasDash(name) == DashPositions(name) # {}
BeforeLastDash(name) == SubSeq(name, 1, Max(DashPositions(name)) - 1)

(***************************************************************************)
(* C1                                                                      *)
(***************************************************************************)
\* C1 (as claimed): on every platform, when the previous invocation ran the
\* download and the build to the end, this invocation starts no download or
\* build step and reaches the Link Emitter through the idempotency check.
C1_BuildOnlyOnce ==
    prev.ran_build =>
        /\ \A i \in 1..Len(steps) : steps[i].name \notin DownloadBuildSteps
        /\ AtLinkEmitter => skipped

(***************************************************************************)
(* C2                                                                      *)
(***************************************************************************)
\* C2: when PORTAUDIO_ONLY_STATIC is unset and the probe finds portaudio-2.0 at
\* version 19 or later, the invocation ends successfully with the probe as its
\* only step (no download, extract, configure, make, install or cleanup) and
\* with the variable still unset.
C2_ProbeShortCircuit ==
    \A i \in 1..Len(steps) :
        (steps[i].name = "probe" /\ steps[i].status = "success") =>
            /\ pc = "done_found"
            /\ StepNames = <<"probe">>
            /\ panic_msg = NoPanic
            /\ ~only_static

C2_Witness ==
    /\ pc = "done_found"
    /\ Len(steps) = 1
    /\ steps[1].name = "probe"
    /\ steps[1].status = "success"

ExternalSteps == {"download", "untar", "configure", "make", "install", "rm"}

\* C4: an external step (download, extract, configure, make, make install,
\* cleanup) that fails to launch or exits non-zero is the last step of its
\* invocation: the invocation has panicked at that step, nothing was started
\* after it (after a failed configure, no make) and no link directive was
\* printed.
C4_FatalPropagation ==
    \A i \in 1..Len(steps) :
        (steps[i].name \in ExternalSteps /\ steps[i].status # "success") =>
            /\ i = Len(steps)
            /\ pc = "panicked"
            /\ panic_at = steps[i].name
            /\ panic_msg # NoPanic
            /\ ~LinkDirectivesEmitted

C4_Witness ==
    /\ pc = "panicked"
    /\ steps # <<>>
    /\ LastStep.name = "configure"
    /\ LastStep.status = "nonzero"
    /\ ~Ran("make")

(***************************************************************************)
(* C5                                                                      *)
(***************************************************************************)
\* C5 (as claimed): for every readable RUSTC_LINKER whose base name contains a
\* hyphen, target inference succeeds and the triple given to --target= and
\* --host= is the base name up to, not including, its last hyphen.
C5_TargetInference ==
    (/\ rustc_linker # NotPresent
     /\ IsUnicode(rustc_linker)
     /\ HasDash(BaseName(rustc_linker))) =>
        /\ panic_at # "infer"
        /\ Len(cross_platform_args) = 2
        /\ cross_platform_args[1] = ArgVal("--target=", BeforeLastDash(BaseName(rustc_linker)))
        /\ cross_platform_args[2] = ArgVal("--host=", BeforeLastDash(BaseName(rustc_linker)))

(***************************************************************************)
(* C6                                                                      *)
(***************************************************************************)
\* C6 (as claimed): when RUSTC_LINKER is set and its base name contains no
\* hyphen, the Unix build panics at target inference and configure, make and
\* make install never run.
C6_MalformedLinker ==
    (rustc_linker # NotPresent /\ ~HasDash(BaseName(rustc_linker))) =>
        /\ pc = "panicked"
        /\ panic_at = "infer"
        /\ ~Ran("configure") /\ ~Ran("make") /\ ~Ran("install")

(***************************************************************************)
(* C7                                                                      *)
(***************************************************************************)
\* C7 (as claimed): once a Unix-family invocation has completed download and
\* build, whatever earlier invocations left behind, the working directory
\* holds neither the folder portaudio nor a downloaded archive, and
\* OUT_DIR/lib/libportaudio.a exists.
C7_Cleanup ==
    (target_os \in UnixFamily /\ AtLinkEmitter /\ ~skipped) =>
        /\ join(WorkDir, <<PORTAUDIO_FOLDER>>) \notin files
        /\ join(WorkDir, <<PORTAUDIO_TAR>>) \notin files
        /\ join(WorkDir, <<PORTAUDIO_TAR_1>>) \notin files
        /\ static_lib \in files

(***************************************************************************)
(* C8                                                                      *)
(***************************************************************************)
\* C8: when a Unix-family invocation with OUT_DIR = D has ended on the build
\* path, the directives it printed contain the native search path D/lib and
\* the library portaudio with static linkage.
C8_LinkDirectiveShape ==
    (target_os \in UnixFamily /\ pc = "done_built") =>
        /\ \E i \in 1..Len(stdout) :
              IsLinkDirective(stdout[i]) /\ stdout[i].search = join(out_dir, <<"lib">>)
        /\ \E i \in 1..Len(stdout) :
              IsLinkDirective(stdout[i]) /\ stdout[i].lib = "portaudio" /\ stdout[i].static

C8_Witness ==
    /\ target_os = "unix"
    /\ out_dir = <<"tmp", "out">>
    /\ pc = "done_built"
    /\ ~skipped
    /\ \E i \in 1..Len(stdout) : stdout[i].search = <<"tmp", "out", "lib">>

(***************************************************************************)
(* C9                                                                      *)
(***************************************************************************)
MessageContains(msg, string) == \E k \in 1..Len(msg) : msg[k].cmd = string

\* C9 (as claimed): whenever a command given to run could not be launched or
\* exited non-zero, the panic message contains the formatted command line.
C9_RunDiagnostics ==
    (/\ target_os \in UnixFamily
     /\ pc = "panicked"
     /\ panic_at \in ExternalSteps) =>
        MessageContains(panic_msg, DebugFmt(LastStep.cmd))

(***************************************************************************)
(* C10                                                                     *)
(***************************************************************************)
BuilderSubSteps ==
    {"untar", "chdir", "infer", "configure", "make", "install", "chdir_back", "rm",
     "cmake", "rename"}

\* C10 (as claimed): when the previous invocation panicked at a sub-step of the
\* Platform Builder, this invocation reaches the end of the build path only
\* after running the download and the build again.
C10_FullRetry ==
    (/\ prev.outcome = "panicked"
     /\ prev.at \in BuilderSubSteps
     /\ pc = "done_built") =>
        (~skipped /\ OnlyBuildSteps(StepNames) = FullBuild(target_os))

(***************************************************************************)
(* C11                                                                     *)
(***************************************************************************)
\* the stage of the pipeline a control position belongs to, where target
\* inference is a stage of its own
StageOf(at) ==
    CASE at = "main" -> "Start"
      [] at = "probe" -> "Probing"
      [] at = "build" -> "Check"
      [] at = "infer" -> "Inferring"
      [] at = "download" -> "Fetching"
      [] at \in {"untar", "chdir", "configure", "make", "install", "chdir_back", "rm",
                 "cmake", "rename"} -> "Building"
      [] at = "print_libs" -> "Emitting"
      [] at \in Terminal -> "Done"

IndexIn(seq, x) == CHOOSE i \in 1..Len(seq) : seq[i] = x

\* the order of the stages as claimed: inference before fetching
ClaimedStageOrder ==
    <<"Start", "Probing", "Check", "Inferring", "Fetching", "Building", "Emitting", "Done">>

\* the order of the positions in the code, target inference being part of the
\* build, between the directory change and configure
PositionOrder ==
    <<"main", "probe", "build", "download", "untar", "chdir", "infer", "configure", "make",
      "install", "chdir_back", "rm", "print_libs", "done">>

PositionRank(at) ==
    IF at \in Terminal THEN IndexIn(PositionOrder, "done")
    ELSE IF at = "cmake" THEN IndexIn(PositionOrder, "untar")
    ELSE IF at = "rename" THEN IndexIn(PositionOrder, "chdir")
    ELSE IndexIn(PositionOrder, at)

NoStepTwice(log) ==
    \A i, j \in 1..Len(log) : log[i].name = log[j].name => i = j

BuildPath ==
    {"build", "download", "untar", "chdir", "infer", "configure", "make", "install",
     "chdir_back", "rm", "cmake", "rename", "print_libs", "pkg_config", "done_built"}

\* C12: when the probe was made (PORTAUDIO_ONLY_STATIC unset) and returned an
\* error of any kind, the invocation neither ended at the probe nor panicked
\* there: it is on the source-build path, or has panicked at a later position
\* of that path.
C12_ProbeErrorNonFatal ==
    \A i \in 1..Len(steps) :
        (steps[i].name = "probe" /\ steps[i].status # "success") =>
            /\ ~only_static
            /\ pc # "done_found"
            /\ panic_at # "probe"
            /\ \/ pc \in BuildPath
               \/ pc = "panicked" /\ panic_at \in BuildPath

C12_Witness ==
    /\ Len(steps) >= 2
    /\ steps[1].name = "probe"
    /\ steps[1].status = "launch_failed"
    /\ steps[2].name = "download"
    /\ pc = "done_built"

(***************************************************************************)
(* C13                                                                     *)
(***************************************************************************)
\* C13: in the Unix build, configure, make and make install are started, and
\* have run, only with the extracted source folder as current directory; the
\* cleanup is started, and has run, only with the original directory
\* restored; and when the build has completed the current directory is the
\* one the invocation started in.
C13_WorkingDirectory ==
    /\ (pc \in {"configure", "make", "install"} \/ panic_at \in {"configure", "make", "install"})
          => cwd = join(WorkDir, <<PORTAUDIO_FOLDER>>)
    /\ (pc = "rm" \/ Ran("rm")) => cwd = WorkDir
    /\ (target_os \in UnixFamily /\ AtLinkEmitter) => cwd = WorkDir

C13_Witness ==
    /\ target_os \in UnixFamily
    /\ pc = "done_built"
    /\ Ran("configure") /\ Ran("install") /\ Ran("rm")
    /\ cwd = WorkDir

(***************************************************************************)
(* C14                                                                     *)
(***************************************************************************)
HasArg(command, arg) == \E k \in 1..Len(command) : command[k] = arg

HasFlag(command, text) == \E k \in 1..Len(command) : command[k].text = text

\* a linker path whose base name is <triple>-<tool>: readable, ASCII, with a
\* non-empty triple before its last hyphen and a non-empty tool name after it
WellFormedLinker(value) ==
    /\ value # NotPresent
    /\ IsUnicode(value)
    /\ \A k \in 1..Len(BaseName(value)) : Utf8Len(BaseName(value)[k]) = 1
    /\ HasDash(BaseName(value))
    /\ BeforeLastDash(BaseName(value)) # <<>>
    /\ BaseName(value)[Len(BaseName(value))] # "-"

\* C14: every configure command carries --disable-shared, --enable-static,
\* --prefix OUT_DIR and --with-pic; when RUSTC_LINKER is absent it carries no
\* --target= and no --host=; when RUSTC_LINKER is present and well-formed it
\* carries --target=T and --host=T for the triple T of the linker's name.
C14_CrossTargetFlags ==
    \A i \in 1..Len(steps) :
        steps[i].name = "configure" =>
            /\ steps[i].cmd[1] = Arg("./configure")
            /\ HasArg(steps[i].cmd, Arg("--disable-shared"))
            /\ HasArg(steps[i].cmd, Arg("--enable-static"))
            /\ \E k \in 1..(Len(steps[i].cmd) - 1) :
                  steps[i].cmd[k] = Arg("--prefix") /\ steps[i].cmd[k + 1] = ArgVal("", out_dir)
            /\ HasArg(steps[i].cmd, Arg("--with-pic"))
            /\ rustc_linker = NotPresent =>
                  (~HasFlag(steps[i].cmd, "--target=") /\ ~HasFlag(steps[i].cmd, "--host="))
            /\ WellFormedLinker(rustc_linker) =>
                  /\ HasArg(steps[i].cmd,
                            ArgVal("--target=", BeforeLastDash(BaseName(rustc_linker))))
                  /\ HasArg(steps[i].cmd,
                            ArgVal("--host=", BeforeLastDash(BaseName(rustc_linker))))

C14_Witness ==
    /\ Ran("configure")
    /\ rustc_linker = <<"a", "-", "a">>
    /\ HasArg(LastStep.cmd, ArgVal("--target=", <<"a">>))
    /\ LastStep.name = "configure"

(***************************************************************************)
(* C15                                                                     *)
(***************************************************************************)
\* C15: on Linux the Link Emitter asks pkg-config, with static linkage, for
\* the descriptor OUT_DIR/lib/pkgconfig/portaudio-2.0.pc; a failed lookup is
\* the last step of a panicked invocation that printed no link directive,
\* and a Linux invocation that ends on the build path has made that lookup
\* successfully with the descriptor on disk.
C15_LinuxLinkEmission ==
    /\ \A i \in 1..Len(steps) :
          steps[i].name = "pkg_config" =>
              /\ target_os = "linux"
              /\ steps[i].cmd = <<Arg("pkg-config"), Arg("--static"),
                                  ArgVal("", join(out_dir,
                                                  <<"lib", "pkgconfig", "portaudio-2.0.pc">>))>>
              /\ steps[i].status # "success" =>
                    /\ i = Len(steps)
                    /\ pc = "panicked"
                    /\ panic_at = "pkg_config"
                    /\ ~LinkDirectivesEmitted
    /\ (target_os = "linux" /\ pc = "done_built") =>
          /\ LastStep.name = "pkg_config"
          /\ LastStep.status = "success"
          /\ pc_file \in files

C15_Witness ==
    /\ target_os = "linux"
    /\ pc = "panicked"
    /\ panic_at = "pkg_config"
    /\ pc_file \notin files
    /\ static_lib \in files

(***************************************************************************)
(* C16                                                                     *)
(***************************************************************************)
LinkDirectives == SelectSeq(stdout, IsLinkDirective)

\* C16: on Windows, when the build has completed OUT_DIR holds portaudio.lib
\* and not the architecture-suffixed library; a failed rename ends the
\* invocation with no link directive printed; and the only link directive of
\* an invocation that ends on the build path is the native search path OUT_DIR.
C16_WindowsPostStep ==
    target_os = "windows" =>
        /\ AtLinkEmitter =>
              /\ join(out_dir, <<"portaudio.lib">>) \in files
              /\ join(out_dir, <<platform_specific_library_name>>) \notin files
        /\ panic_at = "rename" => (pc = "panicked" /\ LinkDirectives = <<>>)
        /\ pc = "done_built" =>
              LinkDirectives = <<Directive("rustc-link-search", out_dir, "", FALSE)>>

C16_Witness ==
    /\ target_os = "windows"
    /\ pc = "done_built"
    /\ Ran("cmake")
    /\ join(out_dir, <<"portaudio.lib">>) \in files

(***************************************************************************)
(* C18                                                                     *)
(***************************************************************************)
\* the static artifact the directives of the platform refer to
linked_artifact ==
    IF target_os = "windows" THEN join(out_dir, <<"portaudio.lib">>) ELSE static_lib

\* C18: whenever the Link Emitter is reached on the build path the static
\* artifact exists, and either the idempotency check found it or the download
\* and every build step of the platform ran successfully in this invocation;
\* an invocation that panicked before the Link Emitter printed no link
\* directive.
C18_ArtifactExistsAtEmit ==
    /\ AtLinkEmitter =>
          /\ linked_artifact \in files
          /\ \/ skipped /\ OnlyBuildSteps(StepNames) = <<>>
             \/ /\ ~skipped
                /\ OnlyBuildSteps(StepNames) = FullBuild(target_os)
                /\ \A i \in 1..Len(steps) :
                      steps[i].name \in DownloadBuildSteps => steps[i].status = "success"
    /\ (pc = "panicked" /\ panic_at \in BuilderSubSteps \cup {"download"}) =>
          LinkDirectives = <<>>

C18_Witness ==
    /\ pc = "done_built"
    /\ target_os = "unix"
    /\ skipped
    /\ static_lib \in files
    /\ LinkDirectives # <<>>

(***************************************************************************)
(* C19                                                                     *)
(***************************************************************************)
\* C19 (as claimed): no configure command carries an empty --target= or
\* --host=, whatever the value of RUSTC_LINKER.
C19_NonEmptyTriple ==
    \A i \in 1..Len(steps) :
        steps[i].name = "configure" =>
            \A k \in 1..Len(steps[i].cmd) :
                steps[i].cmd[k].text \in {"--target=", "--host="} =>
                    steps[i].cmd[k].value # <<>>

(***************************************************************************)
(* C17                                                                     *)
(***************************************************************************)
\* process q has run its cleanup (rm -rf of the archive and the folder)
Cleaned(q) ==
    /\ ~procs[q].skipped
    /\ procs[q].pc \in {"print_libs", "done_built"} \/ procs[q].panic_at = "pkg_config"

\* process q has begun to write the library under OUT_DIR
StartedInstall(q) ==
    /\ ~procs[q].skipped
    /\ \/ procs[q].pc \in {"installing", "chdir_back", "rm", "print_libs", "done_built"}
       \/ procs[q].panic_at \in {"install", "pkg_config"}

\* C17: with two concurrent processes and healthy tools, a process aborts
\* only at a step whose archive or source folder the other process has
\* removed, or at the lookup of a descriptor the other has not yet written;
\* it skips the build only when the other process has put the library there,
\* and prints link directives for a library that is being written only when
\* the other process is the one writing it; and while the other
\* process has not moved, neither happens.  The witness is the interleaving
\* in which one process has aborted and the other has completed.
C17_UnsafeByInterference ==
    \A p \in Procs : \A q \in Procs \ {p} :
        /\ procs[p].panic_at = "untar" => (Cleaned(q) /\ work_tar \notin files)
        /\ procs[p].panic_at \in {"chdir", "configure", "make", "install"} =>
              (Cleaned(q) /\ work_folder \notin files)
        /\ procs[p].panic_at = "pkg_config" => procs[p].skipped
        /\ procs[p].skipped => (static_lib \in files /\ StartedInstall(q))
        /\ procs[p].linked_partial => StartedInstall(q)
        /\ procs[q].pc = "build" =>
              (procs[p].pc # "panicked" /\ ~procs[p].linked_partial)

C17_Witness ==
    \E p \in Procs : \E q \in Procs \ {p} :
        /\ procs[p].pc = "panicked"
        /\ procs[p].panic_at \in {"untar", "chdir", "configure", "make", "install"}
        /\ procs[q].pc = "done_built"
====
